---------------------------- MODULE Spec2Model ----------------------------
(***************************************************************************)
(* A model of src/port-scanner.js: the port-list expansion, the counting   *)
(* Semaphore, the per-port socket probe (scanPort) and the orchestration   *)
(* of one scan (runScan) on Node's single-threaded event loop.             *)
(*                                                                         *)
(* Strings are sequences of one-character strings.  An optional value      *)
(* (undefined / null in the source) is a set: {} when absent, {v} when     *)
(* present.                                                                *)
(***************************************************************************)
EXTENDS Integers, Sequences, FiniteSets, TLC

(***************************************************************************)
(* Bounds of the model.                                                    *)
(***************************************************************************)
\* The longest port list a modelled scan expands to.
MaxPorts == 2
\* The largest explicitly configured --concurrency value.
MaxConcurrency == 2

(***************************************************************************)
(* Program constants.                                                      *)
(***************************************************************************)
DefaultConcurrency == 200
DefaultLastPort == 1024
MaxPortNumber == 65535
BannerBytes == 512
ExitResolutionFailed == 2
ExitHelp == 0

(***************************************************************************)
(* Optional values and small helpers.                                      *)
(***************************************************************************)
None == {}
Some(v) == {v}
Val(o) == CHOOSE v \in o : TRUE

MathMax(a, b) == IF a >= b THEN a ELSE b
MathMin(a, b) == IF a <= b THEN a ELSE b

\* Number(...) of a string that is no numeral.  Every comparison with NaN is
\* false in the source; the operators below test for it before comparing.
NaN == -1

Digits == {"0", "1", "2", "3", "4", "5", "6", "7", "8", "9"}
DigitVal(c) ==
  CASE c = "0" -> 0 [] c = "1" -> 1 [] c = "2" -> 2 [] c = "3" -> 3
    [] c = "4" -> 4 [] c = "5" -> 5 [] c = "6" -> 6 [] c = "7" -> 7
    [] c = "8" -> 8 [] c = "9" -> 9

Whitespace == {" "}

RECURSIVE TrimLeft(_)
TrimLeft(s) ==
  IF s # <<>> /\ Head(s) \in Whitespace THEN TrimLeft(Tail(s)) ELSE s

RECURSIVE TrimRight(_)
TrimRight(s) ==
  IF s # <<>> /\ s[Len(s)] \in Whitespace
    THEN TrimRight(SubSeq(s, 1, Len(s) - 1))
    ELSE s

\* String.prototype.trim
trim(s) == TrimRight(TrimLeft(s))

\* String.prototype.includes for a one-character needle
includes(s, c) == \E k \in 1..Len(s) : s[k] = c

\* String.prototype.split for a one-character separator: always at least one
\* piece, empty pieces kept.
RECURSIVE SplitFrom(_, _, _)
SplitFrom(s, c, cur) ==
  IF s = <<>> THEN <<cur>>
  ELSE IF Head(s) = c THEN <<cur>> \o SplitFrom(Tail(s), c, <<>>)
  ELSE SplitFrom(Tail(s), c, Append(cur, Head(s)))

split(s, c) == SplitFrom(s, c, <<>>)

RECURSIVE DecimalValue(_, _)
DecimalValue(s, acc) ==
  IF s = <<>> THEN acc ELSE DecimalValue(Tail(s), 10 * acc + DigitVal(Head(s)))

\* Number(s) for strings over digits, blanks and other characters: blanks
\* around the numeral are ignored, the empty string is 0, anything that is
\* not a run of digits is NaN.
Number(s) ==
  LET t == trim(s)
  IN  IF t = <<>> THEN 0
      ELSE IF \A k \in 1..Len(t) : t[k] \in Digits THEN DecimalValue(t, 0)
      ELSE NaN

\* range(a, b): the numbers a, a+1, ..., b, in order.
range(a, b) == [k \in 1..MathMax(0, b - a + 1) |-> a + k - 1]

\* Set.prototype.add on an insertion-ordered set.
SetAdd(set, x) == IF \E k \in 1..Len(set) : set[k] = x THEN set ELSE Append(set, x)

RECURSIVE SetAddAll(_, _)
SetAddAll(set, xs) ==
  IF xs = <<>> THEN set ELSE SetAddAll(SetAdd(set, Head(xs)), Tail(xs))

\* The ports one comma-separated piece adds to the set (the forEach body).
AddPart(set, part) ==
  LET p == trim(part)
  IN  IF includes(p, "-")
        THEN LET nums == split(p, "-")
                 a == Number(nums[1])
                 b == Number(nums[2])
             IN  IF a = NaN \/ b = NaN
                   THEN set
                   ELSE SetAddAll(set, range(MathMax(1, a), MathMin(MaxPortNumber, b)))
        ELSE LET n == Number(p)
             IN  IF n # NaN /\ n >= 1 /\ n <= MaxPortNumber THEN SetAdd(set, n) ELSE set

RECURSIVE AddParts(_, _)
AddParts(set, parts) ==
  IF parts = <<>> THEN set ELSE AddParts(AddPart(set, Head(parts)), Tail(parts))

\* Array.prototype.sort((a, b) => a - b): insertion of each element before the
\* first greater one.
RECURSIVE InsertSorted(_, _)
InsertSorted(sorted, x) ==
  IF sorted = <<>> THEN <<x>>
  ELSE IF x < Head(sorted) THEN <<x>> \o sorted
  ELSE <<Head(sorted)>> \o InsertSorted(Tail(sorted), x)

\* No sort at all: the set in insertion order.
SortAscending_none(s) == s

RECURSIVE SortAscending(_)
SortAscending(s) ==
  IF s = <<>> THEN <<>>
  ELSE InsertSorted(SortAscending(SubSeq(s, 1, Len(s) - 1)), s[Len(s)])

\* expandPorts(portsArg); portsArg is None when the option is absent.
expandPorts(portsArg) ==
  IF portsArg = None \/ Val(portsArg) = <<>>
    THEN range(1, DefaultLastPort)
    ELSE SortAscending(AddParts(<<>>, split(Val(portsArg), ",")))

(***************************************************************************)
(* COMMON_SERVICES: the static port -> service-name table.                 *)
(***************************************************************************)
ServicePorts ==
  {20, 21, 22, 23, 25, 53, 80, 110, 111, 139, 143, 443, 445, 993, 995,
   3306, 3389, 5900, 8080}

ServiceName(port) ==
  CASE port = 20 -> "ftp-data" [] port = 21 -> "ftp" [] port = 22 -> "ssh"
    [] port = 23 -> "telnet" [] port = 25 -> "smtp" [] port = 53 -> "dns"
    [] port = 80 -> "http" [] port = 110 -> "pop3" [] port = 111 -> "rpcbind"
    [] port = 139 -> "netbios-ssn" [] port = 143 -> "imap"
    [] port = 443 -> "https" [] port = 445 -> "microsoft-ds"
    [] port = 993 -> "imaps" [] port = 995 -> "pop3s"
    [] port = 3306 -> "mysql" [] port = 3389 -> "ms-wbt-server"
    [] port = 5900 -> "vnc" [] port = 8080 -> "http-proxy"

\* COMMON_SERVICES[port] || null
COMMON_SERVICES(port) ==
  IF port \in ServicePorts THEN Some(ServiceName(port)) ELSE None


(***************************************************************************)
(* Semaphore: the record [max, current, queue]; queue holds the waiting    *)
(* tasks' continuations, oldest first.                                     *)
(***************************************************************************)
\* new Semaphore(max)
Semaphore(max) == [max |-> max, current |-> 0, queue |-> <<>>]

\* acquire() admitting one caller too many (current <= max for current < max).
acquire_offByOne(s, t) ==
  IF s.current <= s.max
    THEN [sem |-> [s EXCEPT !.current = @ + 1], granted |-> TRUE]
    ELSE [sem |-> [s EXCEPT !.queue = Append(@, t)], granted |-> FALSE]

\* acquire() called by task t: the semaphore afterwards, and whether the
\* returned promise is already resolved.
acquire(s, t) ==
  IF s.current < s.max
    THEN [sem |-> [s EXCEPT !.current = @ + 1], granted |-> TRUE]
    ELSE [sem |-> [s EXCEPT !.queue = Append(@, t)], granted |-> FALSE]

\* release() taking the newest waiter (queue.pop() for queue.shift()).
release_pop(s) ==
  LET cur == MathMax(0, s.current - 1)
  IN  IF Len(s.queue) > 0
        THEN [sem |-> [s EXCEPT !.current = cur + 1,
                                !.queue = SubSeq(@, 1, Len(@) - 1)],
              woken |-> Some(s.queue[Len(s.queue)])]
        ELSE [sem |-> [s EXCEPT !.current = cur], woken |-> None]

\* release() handing the slot over without counting it again (no current++).
release_forgetsCount(s) ==
  LET cur == MathMax(0, s.current - 1)
  IN  IF Len(s.queue) > 0
        THEN [sem |-> [s EXCEPT !.current = cur, !.queue = Tail(@)],
              woken |-> Some(Head(s.queue))]
        ELSE [sem |-> [s EXCEPT !.current = cur], woken |-> None]

\* release(): the semaphore afterwards, and the waiter whose promise it
\* resolved (None when nobody waited).
release(s) ==
  LET cur == MathMax(0, s.current - 1)
  IN  IF Len(s.queue) > 0
        THEN [sem |-> [s EXCEPT !.current = cur + 1, !.queue = Tail(@)],
              woken |-> Some(Head(s.queue))]
        ELSE [sem |-> [s EXCEPT !.current = cur], woken |-> None]

(***************************************************************************)
(* scanPort: one socket and its event handlers.                            *)
(***************************************************************************)
\* The chunks a peer may send first.
DataChunks == {<<"A", "\r", "\n">>, <<"\r">>}

\* data.toString('utf8', 0, 512)
toString(data) == SubSeq(data, 1, MathMin(BannerBytes, Len(data)))

\* .replace(/\r/g, '')
RECURSIVE stripCR(_)
stripCR(s) ==
  IF s = <<>> THEN <<>>
  ELSE IF Head(s) = "\r" THEN stripCR(Tail(s))
  ELSE <<Head(s)>> \o stripCR(Tail(s))

\* A scanPort whose banner starts as the empty string instead of null.
scanPort_emptyBanner(port) ==
  [port |-> port, state |-> "connecting", isOpen |-> FALSE, banner |-> Some(<<>>),
   finished |-> FALSE, resolved |-> 0, result |-> None, events |-> <<>>]

\* The locals of one scanPort call right after socket.connect(...) was
\* issued: the socket is connecting and nothing has fired yet.
scanPort(port) ==
  [port |-> port, state |-> "connecting", isOpen |-> FALSE, banner |-> None,
   finished |-> FALSE, resolved |-> 0, result |-> None, events |-> <<>>]

NoSocket ==
  [port |-> 0, state |-> "none", isOpen |-> FALSE, banner |-> None,
   finished |-> FALSE, resolved |-> 0, result |-> None, events |-> <<>>]

\* socket.destroy(): no further connect, data or timeout events; 'close'
\* is emitted later.
destroy(s) == [s EXCEPT !.state = "destroyed"]

\* A connect callback that does not mark the port open.
onConnect_forgets(s) == s

\* the connect callback
onConnect(s) == [s EXCEPT !.isOpen = TRUE]

\* socket.on('data', ...): !banner is true of null and of the empty string
onData(s, data) ==
  destroy([s EXCEPT !.banner =
             IF @ = None \/ Val(@) = <<>> THEN Some(stripCR(toString(data))) ELSE @])

\* A timeout handler that also settles the promise, as closed.
onTimeout_resolves(s) ==
  [destroy(s) EXCEPT
     !.resolved = @ + 1,
     !.result = IF @ = None
                  THEN Some([port |-> s.port, open |-> FALSE, banner |-> None])
                  ELSE @]

\* socket.on('timeout', ...)
onTimeout(s) == destroy(s)

\* socket.on('error', ...): an empty handler
onError(s) == s

\* resolve(value) of the promise scanPort returns: only the first call
\* settles it.
resolve(s, value) ==
  [s EXCEPT !.resolved = @ + 1, !.result = IF @ = None THEN Some(value) ELSE @]

\* A close handler that reports a port open only if no error or timeout
\* was seen (open: isOpen && !failed).
onClose_failedMeansClosed(s) ==
  IF s.finished THEN s
  ELSE LET failed == \E k \in 1..Len(s.events) : s.events[k] \in {"timeout", "error"}
           r == [port |-> s.port, open |-> s.isOpen /\ ~failed, banner |-> s.banner]
       IN  [s EXCEPT !.finished = TRUE, !.resolved = @ + 1,
                     !.result = IF @ = None THEN Some(r) ELSE @]

\* socket.on('close', ...)
onClose(s) ==
  IF s.finished THEN s
  ELSE resolve([s EXCEPT !.finished = TRUE],
               [port |-> s.port, open |-> s.isOpen, banner |-> s.banner])

(***************************************************************************)
(* Inputs of a modelled run.                                               *)
(***************************************************************************)
DigitChar(d) ==
  CASE d = 0 -> "0" [] d = 1 -> "1" [] d = 2 -> "2" [] d = 3 -> "3"
    [] d = 4 -> "4" [] d = 5 -> "5" [] d = 6 -> "6" [] d = 7 -> "7"
    [] d = 8 -> "8" [] d = 9 -> "9"

RECURSIVE Numeral(_)
Numeral(n) ==
  IF n < 10 THEN <<DigitChar(n)>> ELSE Numeral(n \div 10) \o <<DigitChar(n % 10)>>

\* "lo-hi"
RangeSpec(lo, hi) == Numeral(lo) \o <<"-">> \o Numeral(hi)

\* The --ports values of the modelled scans: a range of MaxPorts ports from
\* 79 on (79 has no entry in COMMON_SERVICES, 80 has one) and the unordered
\* list "80, 81,22".
ScanPortSpecs ==
  {Some(RangeSpec(79, 78 + MaxPorts)),
   Some(<<"8", "0", ",", " ", "8", "1", ",", "2", "2">>)}

\* The --concurrency values: absent, or a number from -1 to MaxConcurrency.
ConcurrencyArgs == {None} \cup {Some(c) : c \in -1..MaxConcurrency}

HostArgs == {None, Some("scanme.example")}

\* What parseArgs can return.
Args ==
  [host : HostArgs, ports : ScanPortSpecs, concurrency : ConcurrencyArgs,
   json : BOOLEAN, help : BOOLEAN]

\* What dns.lookup can answer.
LookupAnswers ==
  {[error |-> Some("ENOTFOUND"), address |-> None],
   [error |-> None, address |-> Some("203.0.113.5")]}

\* What dns.reverse can answer (after reverseDns folded errors into null).
ReverseAnswers == {None, Some("host.example")}


(***************************************************************************)
(* The state of one run of the program.                                    *)
(*                                                                         *)
(* Node runs one callback at a time.  A promise continuation (the rest of  *)
(* an async function after an await) is a microtask: the microtasks run,   *)
(* oldest first, before the next socket event is delivered.                *)
(***************************************************************************)
VARIABLES
  pc,         \* where the main flow stands
  args,       \* what parseArgs returned
  tokens,     \* history: the tokens the --ports value was written from
  ports,      \* runScan's ports
  sem,        \* runScan's sem
  ip,         \* runScan's ip (None before resolution)
  rdns,       \* runScan's rdns
  task,       \* per port index: where that port's async task stands
  sock,       \* per port index: the locals of that task's scanPort call
  microtasks, \* the tasks whose awaited promise is resolved, oldest first
  results,    \* runScan's results
  summary,    \* what the run printed at its end (None before)
  exitCode,   \* the code given to process.exit (None if it was not called)
  probes,     \* history: the ports scanPort was invoked for, in order
  waitOrder,  \* history: the tasks acquire() queued, in order
  grantOrder  \* history: the queued tasks release() resolved, in order

vars ==
  <<pc, args, tokens, ports, sem, ip, rdns, task, sock, microtasks, results, summary,
    exitCode, probes, waitOrder, grantOrder>>

\* The tasks ports.map has created: one per index of ports.
Tasks == DOMAIN task

\* options.concurrency || 200: undefined and 0 are falsy
concurrencyOf(opt) ==
  IF opt = None \/ Val(opt) = 0 THEN DefaultConcurrency ELSE Val(opt)

Init ==
  /\ pc = "main"
  /\ args \in Args
  /\ tokens = <<>>
  /\ ports = <<>>
  /\ sem = Semaphore(0)
  /\ ip = None
  /\ rdns = None
  /\ task = <<>>
  /\ sock = <<>>
  /\ microtasks = <<>>
  /\ results = <<>>
  /\ summary = None
  /\ exitCode = None
  /\ probes = <<>>
  /\ waitOrder = <<>>
  /\ grantOrder = <<>>

\* The main function up to its first await: help, or the start of runScan
\* (its constants, the semaphore, the call of resolveHost).
Main ==
  /\ pc = "main"
  /\ IF args.help \/ args.host = None
       THEN /\ pc' = "exited"
            /\ exitCode' = Some(ExitHelp)
            /\ UNCHANGED <<ports, sem>>
       ELSE /\ pc' = "resolveHost"
            /\ ports' = expandPorts(args.ports)
            /\ sem' = Semaphore(concurrencyOf(args.concurrency))
            /\ UNCHANGED exitCode
  /\ UNCHANGED <<args, tokens, ip, rdns, task, sock, microtasks, results, summary,
                 probes, waitOrder, grantOrder>>

\* A failed lookup that only sets the exit code (process.exitCode = 2) and
\* lets runScan go on.
ResolveHost_exitCodeOnly ==
  /\ pc = "resolveHost"
  /\ \E resolved \in LookupAnswers :
       /\ pc' = "reverseDns"
       /\ ip' = resolved.address
       /\ exitCode' = IF resolved.error # None
                      THEN Some(ExitResolutionFailed)
                      ELSE exitCode
  /\ UNCHANGED <<args, tokens, ports, sem, rdns, task, sock, microtasks, results,
                 summary, probes, waitOrder, grantOrder>>

\* resolveHost settles: a failed lookup ends the process with code 2.
ResolveHost ==
  /\ pc = "resolveHost"
  /\ \E resolved \in LookupAnswers :
       IF resolved.error # None
         THEN /\ pc' = "exited"
              /\ exitCode' = Some(ExitResolutionFailed)
              /\ UNCHANGED ip
         ELSE /\ pc' = "reverseDns"
              /\ ip' = resolved.address
              /\ UNCHANGED exitCode
  /\ UNCHANGED <<args, tokens, ports, sem, rdns, task, sock, microtasks, results,
                 summary, probes, waitOrder, grantOrder>>

\* The acquire() calls of ports.map, one per port in list order: st.task is
\* where each task stands, st.granted the tasks whose promise is resolved,
\* st.waits the tasks that were queued.
RECURSIVE mapAcquire(_, _, _)
mapAcquire(st, t, n) ==
  IF t > n THEN st
  ELSE LET a == acquire(st.sem, t)
       IN  mapAcquire(
             [sem |-> a.sem,
              task |-> Append(st.task, IF a.granted THEN "granted" ELSE "waiting"),
              granted |-> IF a.granted THEN Append(st.granted, t) ELSE st.granted,
              waits |-> IF a.granted THEN st.waits ELSE Append(st.waits, t)],
             t + 1, n)

\* reverseDns settles; runScan goes on synchronously through ports.map, which
\* starts every task up to its `await sem.acquire()`, to `await Promise.all`.
ReverseDns ==
  /\ pc = "reverseDns"
  /\ \E answer \in ReverseAnswers : rdns' = answer
  /\ LET st == mapAcquire([sem |-> sem, task |-> <<>>, granted |-> <<>>,
                           waits |-> <<>>], 1, Len(ports))
     IN  /\ sem' = st.sem
         /\ task' = st.task
         /\ microtasks' = st.granted
         /\ waitOrder' = st.waits
  /\ sock' = [t \in 1..Len(ports) |-> NoSocket]
  /\ pc' = "awaitAll"
  /\ UNCHANGED <<args, tokens, ports, ip, results, summary, exitCode, probes, grantOrder>>

\* The oldest microtask is task t's continuation.
Resumes(t) == microtasks # <<>> /\ Head(microtasks) = t

\* Every closure sharing one loop variable: each task sees the last port.
portOf_lastPort(ps, t) == ps[Len(ps)]

\* The port bound in task t's closure by ports.map(port => ...).
portOf(ps, t) == ps[t]

\* A task resumes after `await sem.acquire()` and calls scanPort.
TaskStart(t) ==
  /\ Resumes(t)
  /\ task[t] = "granted"
  /\ task' = [task EXCEPT ![t] = "probing"]
  /\ sock' = [sock EXCEPT ![t] = scanPort(portOf(ports, t))]
  /\ microtasks' = Tail(microtasks)
  /\ probes' = Append(probes, portOf(ports, t))
  /\ UNCHANGED <<pc, args, tokens, ports, sem, ip, rdns, results, summary, exitCode,
                 waitOrder, grantOrder>>

\* The socket of task t delivers the event `name`, which leaves the locals
\* of the scanPort call as `after`.  Settling the promise makes the awaiting
\* task's continuation a microtask.
Emit(t, name, after) ==
  /\ microtasks = <<>>
  /\ sock' = [sock EXCEPT ![t] = [after EXCEPT !.events = Append(@, name)]]
  /\ IF sock[t].result = None /\ after.result # None
       THEN /\ task' = [task EXCEPT ![t] = "settled"]
            /\ microtasks' = Append(microtasks, t)
       ELSE UNCHANGED <<task, microtasks>>
  /\ UNCHANGED <<pc, args, tokens, ports, sem, ip, rdns, results, summary, exitCode,
                 probes, waitOrder, grantOrder>>

\* The TCP connection is established.
SocketConnect(t) ==
  /\ sock[t].state = "connecting"
  /\ Emit(t, "connect", onConnect([sock[t] EXCEPT !.state = "connected"]))

\* The peer sends a chunk.
SocketData(t) ==
  /\ sock[t].state = "connected"
  /\ \E data \in DataChunks : Emit(t, "data", onData(sock[t], data))

\* The socket's idle timer expires, while connecting or connected.
SocketTimeout(t) ==
  /\ sock[t].state \in {"connecting", "connected"}
  /\ Emit(t, "timeout", onTimeout(sock[t]))

\* An 'error' event with no listener registered: the error is thrown and
\* ends the process.
SocketError_unhandled(t) ==
  /\ sock[t].state \in {"connecting", "connected"}
  /\ microtasks = <<>>
  /\ sock' = [sock EXCEPT ![t] = [destroy(@) EXCEPT !.events = Append(@, "error")]]
  /\ pc' = "exited"
  /\ exitCode' = Some(1)
  /\ UNCHANGED <<args, tokens, ports, sem, ip, rdns, task, microtasks, results,
                 summary, probes, waitOrder, grantOrder>>

\* The connect is refused, or the connection is reset: the socket is
\* destroyed with an error, and 'error' is emitted.
SocketError(t) ==
  /\ sock[t].state \in {"connecting", "connected"}
  /\ Emit(t, "error", onError(destroy(sock[t])))

\* The peer closes the connection without sending anything: no handler is
\* registered for 'end'; the socket is destroyed.
SocketEnd(t) ==
  /\ sock[t].state = "connected"
  /\ Emit(t, "end", destroy(sock[t]))

\* 'close' is emitted once for a destroyed socket.
SocketClose(t) ==
  /\ sock[t].state = "destroyed"
  /\ Emit(t, "close", onClose([sock[t] EXCEPT !.state = "closed"]))

\* The entry a task pushes for an open port: res with res.service attached.
annotate(res) ==
  [port |-> res.port, open |-> res.open, banner |-> res.banner,
   service |-> COMMON_SERVICES(res.port)]

\* Pushing every result, open or not.
record_pushAll(rs, res) == Append(rs, annotate(res))

\* results after the task's `if (res.open) ... results.push(res)`.
record(rs, res) == IF res.open THEN Append(rs, annotate(res)) ELSE rs

\* A task resumes after `await scanPort(...)`: records an open port, then
\* the finally block releases the semaphore.
TaskFinish(t) ==
  /\ Resumes(t)
  /\ task[t] = "settled"
  /\ results' = record(results, Val(sock[t].result))
  /\ LET r == release(sem)
     IN  /\ sem' = r.sem
         /\ task' = [u \in Tasks |->
                       IF u = t THEN "done"
                       ELSE IF u \in r.woken THEN "granted"
                       ELSE task[u]]
         /\ microtasks' = IF r.woken = None THEN Tail(microtasks)
                          ELSE Append(Tail(microtasks), Val(r.woken))
         /\ grantOrder' = IF r.woken = None THEN grantOrder
                          ELSE Append(grantOrder, Val(r.woken))
  /\ UNCHANGED <<pc, args, tokens, ports, ip, rdns, sock, summary, exitCode, probes,
                 waitOrder>>

\* What runScan prints after `await Promise.all(tasks)`.
output ==
  IF args.json
    THEN [json |-> TRUE, target |-> Val(args.host), ip |-> Val(ip), rdns |-> rdns,
          scannedPorts |-> Len(ports), openPorts |-> results]
    ELSE [json |-> FALSE, found |-> Len(results)]

\* A summary that does not wait for every task: fulfilled by the first task
\* that finishes, as Promise.race would be.
Summary_early ==
  /\ pc = "awaitAll"
  /\ \E t \in Tasks : task[t] = "done"
  /\ summary' = Some(output)
  /\ pc' = "done"
  /\ UNCHANGED <<args, tokens, ports, sem, ip, rdns, task, sock, microtasks, results,
                 exitCode, probes, waitOrder, grantOrder>>

\* Promise.all(tasks) is fulfilled once every task has finished.
Summary ==
  /\ pc = "awaitAll"
  /\ \A t \in Tasks : task[t] = "done"
  /\ summary' = Some(output)
  /\ pc' = "done"
  /\ UNCHANGED <<args, tokens, ports, sem, ip, rdns, task, sock, microtasks, results,
                 exitCode, probes, waitOrder, grantOrder>>

Next ==
  \/ Main
  \/ ResolveHost
  \/ ReverseDns
  \/ \E t \in Tasks : TaskStart(t)
  \/ \E t \in Tasks : SocketConnect(t)
  \/ \E t \in Tasks : SocketData(t)
  \/ \E t \in Tasks : SocketTimeout(t)
  \/ \E t \in Tasks : SocketError(t)
  \/ \E t \in Tasks : SocketEnd(t)
  \/ \E t \in Tasks : SocketClose(t)
  \/ \E t \in Tasks : TaskFinish(t)
  \/ Summary

Spec == Init /\ [][Next]_vars

(***************************************************************************)
(* A scan in which the body of a task's try block may throw: scanPort      *)
(* rejecting when it is called, or the code after `await scanPort(...)`    *)
(* throwing.  The finally block still runs; the task's promise is rejected,*)
(* so Promise.all rejects and main's catch reports a fatal error, while    *)
(* the other tasks go on.                                                  *)
(***************************************************************************)
\* A fault without the finally block: the slot is never released.
TaskFault_noFinally(t) ==
  /\ Resumes(t)
  /\ task[t] \in {"granted", "settled"}
  /\ task' = [task EXCEPT ![t] = "failed"]
  /\ microtasks' = Tail(microtasks)
  /\ probes' = IF task[t] = "granted" THEN Append(probes, portOf(ports, t)) ELSE probes
  /\ pc' = IF pc = "awaitAll" THEN "fatal" ELSE pc
  /\ UNCHANGED <<args, tokens, ports, sem, ip, rdns, sock, results, summary,
                 exitCode, waitOrder, grantOrder>>

\* Task t's try block throws; the finally block releases the semaphore.
TaskFault(t) ==
  /\ Resumes(t)
  /\ task[t] \in {"granted", "settled"}
  /\ LET r == release(sem)
     IN  /\ sem' = r.sem
         /\ task' = [u \in Tasks |->
                       IF u = t THEN "failed"
                       ELSE IF u \in r.woken THEN "granted"
                       ELSE task[u]]
         /\ microtasks' = IF r.woken = None THEN Tail(microtasks)
                          ELSE Append(Tail(microtasks), Val(r.woken))
         /\ grantOrder' = IF r.woken = None THEN grantOrder
                          ELSE Append(grantOrder, Val(r.woken))
  /\ probes' = IF task[t] = "granted" THEN Append(probes, portOf(ports, t)) ELSE probes
  /\ pc' = IF pc = "awaitAll" THEN "fatal" ELSE pc
  /\ UNCHANGED <<args, tokens, ports, ip, rdns, sock, results, summary, exitCode,
                 waitOrder>>

FaultNext ==
  \/ Next
  \/ \E t \in Tasks : TaskFault(t)

FaultSpec == Init /\ [][FaultNext]_vars

(***************************************************************************)
(* The Semaphore on its own: clients call acquire() and release() in any   *)
(* order.  A client acquires once, releases once it holds a slot, and may  *)
(* afterwards call release() once more without holding one.                *)
(***************************************************************************)
\* The number of clients of the gate.
GateClients == 3

\* The capacities runScan can construct the gate with.
GateCapacities == {-1, DefaultConcurrency} \cup 1..MaxConcurrency

GateInit ==
  /\ pc = "gate"
  /\ \E max \in GateCapacities :
       /\ sem = Semaphore(max)
       /\ args = [host |-> None, ports |-> None, concurrency |-> Some(max),
                  json |-> FALSE, help |-> FALSE]
  /\ task = [c \in 1..GateClients |-> "idle"]
  /\ tokens = <<>>
  /\ ports = <<>>
  /\ ip = None
  /\ rdns = None
  /\ sock = <<>>
  /\ microtasks = <<>>
  /\ results = <<>>
  /\ summary = None
  /\ exitCode = None
  /\ probes = <<>>
  /\ waitOrder = <<>>
  /\ grantOrder = <<>>

\* Client c calls acquire().
GateAcquire(c) ==
  /\ pc = "gate"
  /\ task[c] = "idle"
  /\ LET a == acquire(sem, c)
     IN  /\ sem' = a.sem
         /\ task' = [task EXCEPT ![c] = IF a.granted THEN "holding" ELSE "waiting"]
         /\ waitOrder' = IF a.granted THEN waitOrder ELSE Append(waitOrder, c)
  /\ UNCHANGED <<pc, args, tokens, ports, ip, rdns, sock, microtasks, results, summary,
                 exitCode, probes, grantOrder>>

\* Client c calls release() and goes on to `then`.
GateCallRelease(c, then) ==
  /\ LET r == release(sem)
     IN  /\ sem' = r.sem
         /\ task' = [u \in DOMAIN task |->
                       IF u = c THEN then
                       ELSE IF u \in r.woken THEN "holding"
                       ELSE task[u]]
         /\ grantOrder' = IF r.woken = None THEN grantOrder
                          ELSE Append(grantOrder, Val(r.woken))
  /\ UNCHANGED <<pc, args, tokens, ports, ip, rdns, sock, microtasks, results, summary,
                 exitCode, probes, waitOrder>>

\* A client that holds a slot releases it.
GateRelease(c) ==
  /\ pc = "gate"
  /\ task[c] = "holding"
  /\ GateCallRelease(c, "released")

\* A client that holds no slot calls release() again.
GateStrayRelease(c) ==
  /\ pc = "gate"
  /\ task[c] = "released"
  /\ GateCallRelease(c, "over")

GateNext ==
  \/ \E c \in DOMAIN task : GateAcquire(c)
  \/ \E c \in DOMAIN task : GateRelease(c)
  \/ \E c \in DOMAIN task : GateStrayRelease(c)

GateSpec == GateInit /\ [][GateNext]_vars

(***************************************************************************)
(* expandPorts on its own: a --ports value written from a list of tokens   *)
(* is expanded.                                                            *)
(***************************************************************************)
\* The most tokens of a generated --ports value.
MaxTokens == 2

\* A token "n", a token "lo-hi", and a token that is neither.
Single(n) == [text |-> Numeral(n), form |-> "n", lo |-> n, hi |-> n]
Range(lo, hi) == [text |-> RangeSpec(lo, hi), form |-> "n-m", lo |-> lo, hi |-> hi]
Other(text) == [text |-> text, form |-> "other", lo |-> 0, hi |-> 0]

PortTokens ==
  {Single(0), Single(1), Single(22), Single(80), Single(8001),
   Single(65535), Single(70000)}
  \cup {Range(8000, 8002), Range(1, 1), Range(5, 3), Range(0, 3),
        Range(65530, 70000), Range(79, 80)}
  \cup {Other(<<"a", "b", "c">>), Other(<<"-", "5">>)}

\* The tokens "22,80,8000-8002" is written from.
ExampleTokens == <<Single(22), Single(80), Range(8000, 8002)>>

TokenLists ==
  UNION {[1..n -> PortTokens] : n \in 0..MaxTokens} \cup {ExampleTokens}

\* The tokens joined by commas.
RECURSIVE Join(_)
Join(ts) ==
  IF ts = <<>> THEN <<>>
  ELSE IF Len(ts) = 1 THEN ts[1].text
  ELSE ts[1].text \o <<",">> \o Join(Tail(ts))

PortsInit ==
  /\ pc = "expandPorts"
  /\ tokens \in TokenLists
  /\ \E portsArg \in {Some(Join(tokens))} \cup (IF tokens = <<>> THEN {None} ELSE {}) :
       args = [host |-> None, ports |-> portsArg, concurrency |-> None,
               json |-> FALSE, help |-> FALSE]
  /\ ports = <<>>
  /\ sem = Semaphore(0)
  /\ ip = None
  /\ rdns = None
  /\ task = <<>>
  /\ sock = <<>>
  /\ microtasks = <<>>
  /\ results = <<>>
  /\ summary = None
  /\ exitCode = None
  /\ probes = <<>>
  /\ waitOrder = <<>>
  /\ grantOrder = <<>>

\* const ports = expandPorts(options.ports)
ExpandPorts ==
  /\ pc = "expandPorts"
  /\ ports' = expandPorts(args.ports)
  /\ pc' = "expanded"
  /\ UNCHANGED <<args, tokens, sem, ip, rdns, task, sock, microtasks, results,
                 summary, exitCode, probes, waitOrder, grantOrder>>

PortsSpec == PortsInit /\ [][ExpandPorts]_vars

(***************************************************************************)
(* Properties.                                                             *)
(***************************************************************************)
\* The tasks that returned from sem.acquire() and have not yet called
\* sem.release().
InFlight == {t \in Tasks : task[t] \in {"probing", "settled"}}

\* The events of one socket up to now include a timeout or an error.
TransportFailure(s) ==
  \E k \in 1..Len(s.events) : s.events[k] \in {"timeout", "error"}

\* The connect callback fired, and no timeout or error came before it.
ConnectedBeforeFailure(s) ==
  \E k \in 1..Len(s.events) :
    /\ s.events[k] = "connect"
    /\ \A j \in 1..(k - 1) : s.events[j] \notin {"timeout", "error"}

\* The number of entries of a sequence of results that are for port p.
EntriesFor(rs, p) == Cardinality({k \in 1..Len(rs) : rs[k].port = p})

\* The capacity the gate should have for a --concurrency option: 200 when
\* absent, 1 for every value below 1, the value itself otherwise.
ClampedCapacity(opt) ==
  IF opt = None THEN DefaultConcurrency ELSE MathMax(1, Val(opt))

\* runScan has constructed its semaphore.
ScanStarted == pc \in {"resolveHost", "reverseDns", "awaitAll", "done"}

\* C1: at every moment of a scan the number of probes in flight (tasks past
\* sem.acquire() and not yet at sem.release()) is at most the configured
\* concurrency, a configured value below 1 counting as 1.
C1_InFlightAtMostConcurrency ==
  (ScanStarted /\ args.concurrency # None)
    => Cardinality(InFlight) <= MathMax(1, Val(args.concurrency))

\* C2: the openPorts list of the summary printed at the end of a scan is in
\* ascending port order, whatever the order in which the probes completed.
C2_FinalOpenPortsAscending ==
  \A o \in summary :
    o.json => \A j, k \in 1..Len(o.openPorts) :
                j < k => o.openPorts[j].port < o.openPorts[k].port

\* C3: the gate's capacity is 200 when --concurrency is absent, 1 for every
\* configured value below 1, and the configured value otherwise; so it is
\* always at least 1.
C3_CapacityClampedToOne ==
  ScanStarted => sem.max = ClampedCapacity(args.concurrency) /\ sem.max >= 1

\* C4: scanPort is never invoked twice for a port, nor for a port outside
\* the list; and when the scan has completed it has been invoked exactly
\* once for each port of the list.
C4_EachPortProbedOnce ==
  /\ \A j, k \in 1..Len(probes) : j # k => probes[j] # probes[k]
  /\ \A k \in 1..Len(probes) : \E t \in 1..Len(ports) : probes[k] = ports[t]
  /\ pc = "done" =>
       /\ Len(probes) = Len(ports)
       /\ \A t \in 1..Len(ports) :
            Cardinality({k \in 1..Len(probes) : probes[k] = ports[t]}) = 1

\* A completed scan of at least three ports, some of which had to wait for
\* a slot.
C4_Witness ==
  pc = "done" /\ Len(probes) >= 3 /\ waitOrder # <<>> /\ Len(results) >= 1

\* C5 as stated: a probe whose socket saw a refused or reset connection
\* (error) or a timeout, before or after the connect completed, returns a
\* result with open = false.
C5_FailureAlwaysClosed ==
  \A t \in DOMAIN sock :
    (sock[t].state = "closed" /\ TransportFailure(sock[t]))
      => /\ sock[t].result # None
         /\ \A r \in sock[t].result : ~r.open

\* C5 as amended: a probe whose socket saw an error or a timeout still
\* returns a result (the promise is resolved, never rejected); the result
\* has open = false when the failure came while connecting, and open = true
\* when it came after the connect completed.
C5_FailureFoldedIntoResult ==
  \A t \in DOMAIN sock :
    (sock[t].state = "closed" /\ TransportFailure(sock[t]))
      => /\ sock[t].result # None
         /\ \A r \in sock[t].result :
              /\ r.open = (sock[t].events[1] = "connect")
              /\ r.port = ports[t]

\* One probe failed while connecting, another after its connect completed.
C5_Witness ==
  \E t, u \in DOMAIN sock :
    /\ sock[t].events = <<"error", "close">>
    /\ sock[u].events = <<"connect", "timeout", "close">>
    /\ sock[t].result # None
    /\ sock[u].result # None

\* C6: the result of a probe has open = true exactly when the connect
\* callback fired before any timeout or error event of the socket; a
\* timeout or error while still connecting gives open = false.
C6_OpenIffConnectedFirst ==
  \A t \in DOMAIN sock :
    \A r \in sock[t].result : r.open = ConnectedBeforeFailure(sock[t])

\* One probe timed out while connecting, another connected and got data.
C6_Witness ==
  \E t, u \in DOMAIN sock :
    /\ sock[t].events = <<"timeout", "close">>
    /\ sock[u].events = <<"connect", "data", "close">>
    /\ \A r \in sock[t].result : ~r.open
    /\ \A r \in sock[u].result : r.open
    /\ sock[t].result # None
    /\ sock[u].result # None

\* C7: the promise of a probe is resolved exactly once: never more than one
\* resolve call, exactly one once the socket has closed, and the result is
\* the one the first call gave (the locals at that moment).
C7_ResolvedExactlyOnce ==
  \A t \in DOMAIN sock :
    /\ sock[t].resolved <= 1
    /\ sock[t].resolved = (IF sock[t].result = None THEN 0 ELSE 1)
    /\ sock[t].state = "closed" => sock[t].resolved = 1 /\ sock[t].finished
    /\ task[t] \in {"settled", "done"} <=> sock[t].resolved = 1
    /\ \A r \in sock[t].result :
         r = [port |-> ports[t], open |-> sock[t].isOpen, banner |-> sock[t].banner]

\* A probe that saw two events that tear the socket down or follow from it
\* (a timeout, then the close) and has its result.
C7_Witness ==
  \E t \in DOMAIN sock :
    /\ sock[t].events = <<"connect", "timeout", "close">>
    /\ sock[t].resolved = 1
    /\ task[t] = "done"

\* C8: when the forward lookup fails the process ends with exit code 2
\* before any port work: no task exists, nobody acquired the gate, scanPort
\* was never invoked and no summary was printed; a scan that completed has
\* printed a summary and has not called process.exit.
C8_ResolutionFailureAborts ==
  /\ exitCode = Some(ExitResolutionFailed) =>
       /\ pc = "exited"
       /\ task = <<>>
       /\ sem.current = 0
       /\ sem.queue = <<>>
       /\ probes = <<>>
       /\ results = <<>>
       /\ summary = None
  /\ pc = "done" => exitCode = None /\ summary # None

\* The lookup failed.
C8_Witness == exitCode = Some(ExitResolutionFailed) /\ ports # <<>>

\* C9: when a scan has completed, results holds exactly one entry for each
\* port whose probe returned open = true and none for a port whose probe
\* returned open = false; each entry carries the service COMMON_SERVICES
\* names for its port, or none; and the summary reports Len(ports) scanned
\* ports and these results.
C9_SummaryMatchesProbes ==
  pc = "done" =>
    /\ \A t \in Tasks :
         \A r \in sock[t].result :
           /\ EntriesFor(results, ports[t]) = (IF r.open THEN 1 ELSE 0)
           /\ r.open =>
                \E k \in 1..Len(results) :
                  results[k] = [port |-> ports[t], open |-> TRUE,
                                banner |-> r.banner,
                                service |-> COMMON_SERVICES(ports[t])]
    /\ \A k \in 1..Len(results) : \E t \in Tasks : results[k].port = ports[t]
    /\ \A o \in summary :
         IF o.json
           THEN o.scannedPorts = Len(ports) /\ o.openPorts = results
           ELSE o.found = Len(results)

\* A completed scan with an open port that has a service name, an open
\* port that has none, and a closed port.
C9_Witness ==
  /\ pc = "done"
  /\ \E o \in summary : o.json
  /\ \E j, k \in 1..Len(results) :
       results[j].service = None /\ results[k].service = Some("http")
  /\ Len(results) < Len(ports)

\* C10: the gate is FIFO among waiters: the tasks release() has granted a
\* slot to are, in order, the first of the tasks acquire() queued.
C10_WaitersGrantedInOrder ==
  /\ Len(grantOrder) <= Len(waitOrder)
  /\ grantOrder = SubSeq(waitOrder, 1, Len(grantOrder))

\* Two waiters were granted a slot one after the other, and the client that
\* queued first was not the first to call acquire().
C10_Witness ==
  /\ Len(grantOrder) >= 2
  /\ waitOrder[1] > waitOrder[2]

\* C11: whatever acquire() and release() calls a gate of capacity max >= 1
\* has seen, 0 <= current <= max, and when a task waits in the queue
\* current = max.
C11_GateCounterInRange ==
  sem.max >= 1 =>
    /\ 0 <= sem.current
    /\ sem.current <= sem.max
    /\ sem.queue # <<>> => sem.current = sem.max

\* A gate at capacity with a waiter, after a release() by a client that
\* held no slot.
C11_Witness ==
  /\ sem.max >= 1
  /\ sem.queue # <<>>
  /\ sem.current = sem.max
  /\ \E c \in DOMAIN task : task[c] = "over"

\* The ports of [1, 65535] a token names.
Named(tok) ==
  IF tok.form = "other" THEN {}
  ELSE {p \in tok.lo..tok.hi : 1 <= p /\ p <= MaxPortNumber}

\* A token that is a number of [1, 65535], or a range whose bounds both are.
ValidToken(tok) ==
  /\ tok.form # "other"
  /\ 1 <= tok.lo /\ tok.lo <= MaxPortNumber
  /\ 1 <= tok.hi /\ tok.hi <= MaxPortNumber

\* The elements of a sequence.
Elements(s) == {s[k] : k \in 1..Len(s)}

\* C12: for a --ports value made of tokens n and n-m separated by commas,
\* expandPorts returns a strictly ascending sequence of numbers of
\* [1, 65535] whose elements are exactly the in-range ports the tokens
\* name; "22,80,8000-8002" gives [22,80,8000,8001,8002], "70000" gives [],
\* and an empty or absent value gives [1..1024].
C12_ExpandPortsAscendingUnion ==
  (pc = "expanded" /\ \A k \in 1..Len(tokens) : tokens[k].form \in {"n", "n-m"})
    => /\ \A j, k \in 1..Len(ports) : j < k => ports[j] < ports[k]
       /\ \A k \in 1..Len(ports) : 1 <= ports[k] /\ ports[k] <= MaxPortNumber
       /\ IF tokens = <<>>
            THEN ports = [k \in 1..DefaultLastPort |-> k]
            ELSE Elements(ports) = UNION {Named(tokens[k]) : k \in 1..Len(tokens)}
       /\ tokens = ExampleTokens => ports = <<22, 80, 8000, 8001, 8002>>
       /\ tokens = <<Single(70000)>> => ports = <<>>

\* "22,80,8000-8002" has been expanded.
C12_Witness ==
  /\ pc = "expanded"
  /\ args.ports = Some(<<"2", "2", ",", "8", "0", ",",
                         "8", "0", "0", "0", "-", "8", "0", "0", "2">>)
  /\ Len(ports) = 5

\* C13: a token that is not a number of [1, 65535], or a range whose bounds
\* are not both numbers of [1, 65535], adds no port to the result of
\* expandPorts; the valid tokens of the same value are still expanded.
C13_InvalidTokensAddNothing ==
  (pc = "expanded" /\ tokens # <<>>)
    => Elements(ports) =
         UNION {Named(tokens[k]) : k \in {j \in 1..Len(tokens) : ValidToken(tokens[j])}}

\* The tasks that hold a slot of the gate: granted one and not yet at
\* their release().
Holders == {t \in Tasks : task[t] \in {"granted", "probing", "settled"}}

\* C14: every task that acquired the gate releases it exactly once, also
\* when its try block throws: the gate counts exactly the tasks that hold a
\* slot, and once every task has finished (normally or by a fault) the
\* counter is 0 and nobody waits.
C14_EveryAcquireReleasedOnce ==
  /\ sem.current = Cardinality(Holders)
  /\ (Tasks # {} /\ \A t \in Tasks : task[t] \in {"done", "failed"})
       => sem.current = 0 /\ sem.queue = <<>>

\* Every task has finished, one of them by a fault, and some had waited.
C14_Witness ==
  /\ Tasks # {}
  /\ \A t \in Tasks : task[t] \in {"done", "failed"}
  /\ \E t, u \in Tasks : task[t] = "failed" /\ task[u] = "done"
  /\ Len(grantOrder) >= 2

\* C15: the summary is produced only after every task has finished: in every
\* state that has a summary no task waits on the gate, none holds a slot or
\* has a continuation pending, every task is done, and no step taken from
\* such a state changes the result collection.
C15_SummaryAfterAllTasks ==
  /\ [](summary # None =>
          /\ \A t \in Tasks : task[t] = "done"
          /\ sem.queue = <<>>
          /\ microtasks = <<>>
          /\ Holders = {})
  /\ [][summary # None => results' = results]_vars

\* A summary was produced for a scan in which a task had to wait on the gate
\* and a port was found open.
C15_Witness ==
  /\ summary # None
  /\ waitOrder # <<>>
  /\ results # <<>>

\* The sockets that were created and have not emitted 'close'.
OpenSockets == {t \in Tasks : sock[t].state \notin {"none", "closed"}}

\* Every task past its acquire() has created one socket, no other task has
\* one, and a probe's socket is closed once its result is delivered, so a
\* task that gave its slot back has no open socket.
SocketsClosedBeforeRelease ==
  \A t \in Tasks :
    /\ sock[t].state # "none" <=> task[t] \in {"probing", "settled", "done"}
    /\ Cardinality({k \in 1..Len(probes) : probes[k] = portOf(ports, t)})
         = (IF sock[t].state = "none" THEN 0 ELSE 1)
    /\ sock[t].result # None => sock[t].state = "closed"
    /\ task[t] \in {"settled", "done"} => sock[t].state = "closed"

\* C16: each probe opens exactly one socket, which is closed on every exit
\* path before the probe's result is delivered and the gate slot released;
\* so the number of open sockets never exceeds the configured concurrency, a
\* configured value below 1 counting as 1.
C16_SocketsClosedAndBounded ==
  /\ SocketsClosedBeforeRelease
  /\ (ScanStarted /\ args.concurrency # None)
       => Cardinality(OpenSockets) <= MathMax(1, Val(args.concurrency))

\* The part of C16 the code keeps: the sockets are closed before the slot is
\* released, and there are never more open sockets than the gate's capacity
\* when that capacity is at least 1.
C16_SocketsWithinGateCapacity ==
  /\ SocketsClosedBeforeRelease
  /\ sem.max >= 1 => Cardinality(OpenSockets) <= sem.max

\* The socket emitted the event `name`.
Saw(s, name) == \E k \in 1..Len(s.events) : s.events[k] = name

\* C17: in every probe result the banner is non-null only if open = true and
\* a data event delivered bytes before the socket was torn down; a probe
\* that connected and got no data returns open = true and no banner; a probe
\* that never connected returns no banner.
C17_BannerOnlyFromData ==
  \A t \in DOMAIN sock :
    \A r \in sock[t].result :
      /\ r.banner # None => r.open /\ Saw(sock[t], "data")
      /\ (Saw(sock[t], "connect") /\ ~Saw(sock[t], "data"))
           => r.open /\ r.banner = None
      /\ ~Saw(sock[t], "connect") => r.banner = None

\* Three results: one with a banner read from a data event, one of a port
\* that connected and timed out silent, one of a port that never connected.
C17_Witness ==
  \E t, u, v \in DOMAIN sock :
    /\ sock[t].events = <<"connect", "data", "close">>
    /\ \E r \in sock[t].result : r.open /\ r.banner = Some(<<"A", "\n">>)
    /\ sock[u].events = <<"connect", "timeout", "close">>
    /\ \E r \in sock[u].result : r.open /\ r.banner = None
    /\ sock[v].events = <<"error", "close">>
    /\ \E r \in sock[v].result : ~r.open /\ r.banner = None

\* This step delivers an error or a timeout to the socket of task t.
FailureOn(t) ==
  /\ t \in DOMAIN sock /\ t \in DOMAIN sock'
  /\ Len(sock'[t].events) = Len(sock[t].events) + 1
  /\ sock'[t].events[Len(sock'[t].events)] \in {"timeout", "error"}

\* C18: probes are isolated.  The step that delivers an error or a timeout
\* to one socket changes no other socket, no task, not the results, the gate
\* or the program's position; once tasks exist the process never exits; each
\* delivered result is made of the events of its own socket; a scan in which
\* a probe failed keeps going while a task is unfinished, and its summary
\* comes after every port was probed.
C18_ProbesIsolated ==
  /\ [][\A t \in Tasks :
          FailureOn(t) =>
            /\ \A u \in Tasks \ {t} : sock'[u] = sock[u]
            /\ task' = task
            /\ results' = results
            /\ sem' = sem
            /\ pc' = pc]_vars
  /\ [](Tasks # {} => exitCode = None /\ pc # "exited")
  /\ [](\A u \in DOMAIN sock :
          \A r \in sock[u].result :
            /\ r.port = ports[u]
            /\ r.open = Saw(sock[u], "connect")
            /\ (r.banner # None) = Saw(sock[u], "data"))
  /\ []((\E t \in DOMAIN sock : TransportFailure(sock[t])) =>
          /\ (\E u \in Tasks : task[u] # "done") => ENABLED Next
          /\ pc = "done" => \A u \in Tasks : sock[u].result # None)

\* A completed scan in which one probe was reset after connecting and
\* another, probed after it, delivered a banner.
C18_Witness ==
  /\ pc = "done"
  /\ \E t, u \in DOMAIN sock :
       /\ sock[t].events = <<"connect", "error", "close">>
       /\ sock[u].events = <<"connect", "data", "close">>
       /\ \E j, k \in 1..Len(probes) :
            j < k /\ probes[j] = ports[t] /\ probes[k] = ports[u]
       /\ \E k \in 1..Len(results) : results[k].port = ports[u]

\* Every release() so far was called by a client holding a slot.
ReleasedByHoldersOnly == \A c \in DOMAIN task : task[c] # "over"

\* The clients of the gate in the state st.
GateIn(st) == {c \in DOMAIN task : task[c] = st}

\* C19: while every release() is called by a holder, the gate's counter is
\* exact and no wakeup is lost: current is the number of clients granted a
\* slot and not yet released; the queue holds exactly the waiting clients,
\* each once; nobody waits while current < max; and a release() with
\* waiters queued grants the slot to the queue head alone in the same step
\* and leaves current as it was.
C19_CounterExactNoLostWakeup ==
  /\ [](ReleasedByHoldersOnly =>
          /\ sem.current = Cardinality(GateIn("holding"))
          /\ {sem.queue[k] : k \in 1..Len(sem.queue)} = GateIn("waiting")
          /\ Len(sem.queue) = Cardinality(GateIn("waiting"))
          /\ sem.queue # <<>> => ~(sem.current < sem.max))
  /\ [][\A c \in DOMAIN task :
          (task[c] = "holding" /\ task'[c] = "released" /\ sem.queue # <<>>) =>
            /\ sem'.current = sem.current
            /\ sem'.queue = Tail(sem.queue)
            /\ task'[Head(sem.queue)] = "holding"
            /\ GateIn("waiting") \ {u \in DOMAIN task : task'[u] = "waiting"}
                 = {Head(sem.queue)}]_vars

\* A holder released while two clients waited: the first of them now holds
\* the slot, the other still waits, and the gate is full.
C19_Witness ==
  /\ ReleasedByHoldersOnly
  /\ \E a, b, c \in DOMAIN task :
       /\ task[a] = "released"
       /\ task[b] = "holding"
       /\ task[c] = "waiting"
       /\ grantOrder = <<b>>
       /\ sem.queue = <<c>>
  /\ sem.current = sem.max

\* C20: when the target resolves and every started probe settles, the scan
\* terminates for every port list and every configured concurrency.  Every
\* step of a scan is one of finitely many it can take (a call, a socket
\* event, a continuation), so the scan reaches its summary exactly when it
\* is never stuck before it: in every state of a started scan short of the
\* summary some step is possible, and no task is left waiting on the gate
\* with nothing to run.
C20_ScanNeverStuck ==
  (ScanStarted /\ pc # "done") => ENABLED Next

\* The part of C20 the code keeps: with a gate of capacity at least 1 the
\* scan is never stuck before its summary.
C20_NeverStuckWithPositiveCapacity ==
  (sem.max >= 1 /\ ScanStarted /\ pc # "done") => ENABLED Next

=============================================================================
